---- MODULE Spec2Model ----
(***************************************************************************)
(* A model of grab-ld-binaries: the ld.so.cache decoder (ReadDLCache), the *)
(* soname comparator (_dl_cache_libcmp), the cache lookup (DLCache.Lookup), *)
(* the resolution of the command argument (resolveBinary) and the          *)
(* dependency closure (recursiveImports / readImports).                    *)
(*                                                                         *)
(* Strings are sequences of byte values (ASCII codes).  A Go call that can  *)
(* panic is modelled with the outcome "panic" next to its normal return.   *)
(***************************************************************************)
EXTENDS Integers, Sequences, FiniteSets, TLC

VARIABLES
    \* _dl_cache_libcmp called on its own
    p1, p2, cpc, cres,
    \* ReadDLCache
    stream, dpc, dres,
    \* DLCache.Lookup and resolveBinary
    FileEntries, library, statHits, lo, hi, lpc, lres,
    caller, statRes, lookPathRes, rpc, rfile, rerr,
    \* recursiveImports
    edges, how, start, stack, seen, imports, readCalls, fileReads, ipc, ierr

cmpVars == <<p1, p2, cpc, cres>>
readVars == <<stream, dpc, dres>>
lookupVars == <<FileEntries, library, statHits, lo, hi, lpc, lres>>
resolveVars == <<caller, statRes, lookPathRes, rpc, rfile, rerr>>
importVars == <<edges, how, start, stack, seen, imports, readCalls, fileReads, ipc, ierr>>
vars == <<cmpVars, readVars, lookupVars, resolveVars, importVars>>

\* what the steps of one operation leave alone
othersCmp == <<readVars, lookupVars, resolveVars, importVars>>
othersRead == <<cmpVars, lookupVars, resolveVars, importVars>>
othersLookup == <<cmpVars, readVars, resolveVars, importVars>>
othersResolve == <<cmpVars, readVars, importVars>>
othersImports == <<cmpVars, readVars, lookupVars, resolveVars>>

----------------------------------------------------------------------------
(* Bounds of the model *)

\* longest string of the exhaustive part of the comparator's inputs
MaxLen == 3

----------------------------------------------------------------------------
(* Strings *)

Min(a, b) == IF a < b THEN a ELSE b

\* s[from:] of Go, from counted from 0
Drop(s, from) == SubSeq(s, from + 1, Len(s))

\* unicode.IsDigit on a byte below 128: the ASCII digits '0'..'9'
IsDigit(c) == c \in 48..57

\* the largest value strconv.ParseInt(_, 10, 32) returns without error
MaxInt32 == 2147483647

\* strings.IndexFunc(s, nonDigit), with the -1 of "none" already replaced by
\* len(s): the length of the leading digit run
RECURSIVE firstNonDigit(_)
firstNonDigit(s) ==
    IF s = <<>> \/ ~IsDigit(Head(s)) THEN 0 ELSE 1 + firstNonDigit(Tail(s))

\* strconv.ParseInt(digits, 10, 32) on a non-empty run of digits, reading
\* left to right from the value acc: err is the range error
RECURSIVE ParseInt(_, _)
ParseInt(digits, acc) ==
    IF digits = <<>> THEN [err |-> FALSE, n |-> acc]
    ELSE LET d == Head(digits) - 48
         IN  IF acc > (MaxInt32 - d) \div 10
             THEN [err |-> TRUE, n |-> 0]
             ELSE ParseInt(Tail(digits), acc * 10 + d)

\* the closure parseLeadingNum of _dl_cache_libcmp: err stands for panic(err)
parseLeadingNum(s) == ParseInt(SubSeq(s, 1, firstNonDigit(s)), 0)

Ret(v) == [kind |-> "ret", val |-> v]
Panic == [kind |-> "panic", val |-> 0]

\* the tail of _dl_cache_libcmp after its loop: the shorter string sorts first
cmpLengths(a, b) ==
    IF Len(a) < Len(b) THEN Ret(-1)
    ELSE IF Len(a) > Len(b) THEN Ret(1)
    ELSE Ret(0)

\* the loop of _dl_cache_libcmp from index i (counted from 0) up to l
RECURSIVE cmpLoop(_, _, _, _)
cmpLoop(a, b, i, l) ==
    IF i >= l THEN cmpLengths(a, b)
    ELSE LET p1c == a[i + 1]
             p2c == b[i + 1]
         IN  IF IsDigit(p1c) /\ IsDigit(p2c)
             THEN LET n1 == parseLeadingNum(Drop(a, i))
                      n2 == parseLeadingNum(Drop(b, i))
                  IN  IF n1.err \/ n2.err THEN Panic
                      ELSE IF n1.n < n2.n THEN Ret(-1)
                      ELSE IF n1.n > n2.n THEN Ret(1)
                      ELSE cmpLoop(a, b, i + 1, l)
             ELSE IF IsDigit(p1c) THEN Ret(1)
             ELSE IF IsDigit(p2c) THEN Ret(-1)
             ELSE IF p1c < p2c THEN Ret(-1)
             ELSE IF p1c > p2c THEN Ret(1)
             ELSE cmpLoop(a, b, i + 1, l)

\* _dl_cache_libcmp(p1, p2)
dl_cache_libcmp(a, b) == cmpLoop(a, b, 0, Min(Len(a), Len(b)))

----------------------------------------------------------------------------
(* The glibc comparator the Go function mirrors, as quoted in the source *)

\* *p of C: the byte at index i (counted from 0), 0 at the terminator
Deref(s, i) == IF i < Len(s) THEN s[i + 1] ELSE 0

\* val = val * 10 + *p++ - '0' over the digit run at i: the value and the
\* index after the run; ub marks signed overflow of the C int
RECURSIVE glibcRun(_, _, _)
glibcRun(s, i, val) ==
    IF ~IsDigit(Deref(s, i)) THEN [ub |-> FALSE, val |-> val, next |-> i]
    ELSE LET d == Deref(s, i) - 48
         IN  IF val > (MaxInt32 - d) \div 10
             THEN [ub |-> TRUE, val |-> 0, next |-> i]
             ELSE glibcRun(s, i + 1, val * 10 + d)

RECURSIVE glibcLoop(_, _, _, _)
glibcLoop(a, b, i, j) ==
    IF Deref(a, i) = 0 THEN [ub |-> FALSE, val |-> Deref(a, i) - Deref(b, j)]
    ELSE IF IsDigit(Deref(a, i))
         THEN IF IsDigit(Deref(b, j))
              THEN LET r1 == glibcRun(a, i, 0)
                       r2 == glibcRun(b, j, 0)
                   IN  IF r1.ub \/ r2.ub THEN [ub |-> TRUE, val |-> 0]
                       ELSE IF r1.val # r2.val
                            THEN [ub |-> FALSE, val |-> r1.val - r2.val]
                            ELSE glibcLoop(a, b, r1.next, r2.next)
              ELSE [ub |-> FALSE, val |-> 1]
         ELSE IF IsDigit(Deref(b, j)) THEN [ub |-> FALSE, val |-> -1]
         ELSE IF Deref(a, i) # Deref(b, j)
              THEN [ub |-> FALSE, val |-> Deref(a, i) - Deref(b, j)]
              ELSE glibcLoop(a, b, i + 1, j + 1)

\* the C function _dl_cache_libcmp of the comment
glibc_libcmp(a, b) == glibcLoop(a, b, 0, 0)

Sign(x) == IF x < 0 THEN -1 ELSE IF x > 0 THEN 1 ELSE 0

----------------------------------------------------------------------------
(* DLCache.Lookup *)

\* entries of the exhaustive part of the caches
MaxEntries == 3
\* directories listed in LD_LIBRARY_PATH
MaxDirs == 1

\* the window of entries the slow path logs around its match: j from i-10
LogWindow == 10

\* x & y on non-negative integers
RECURSIVE BitAnd(_, _)
BitAnd(x, y) ==
    IF x = 0 \/ y = 0 THEN 0
    ELSE (x % 2) * (y % 2) + 2 * BitAnd(x \div 2, y \div 2)

\* fileEntry.Is64: both bits of 0x300 set
Is64(fe) == BitAnd(fe.Flags, 768) = 768

\* filepath.Join(path, library) for the i-th directory of LD_LIBRARY_PATH,
\* the directory written "d<i>"
EnvPath(i, name) == <<100, 48 + i, 47>> \o name

\* the first i with FileEntries[i].Key == library (counted from 0), or -1
RECURSIVE scanFrom(_, _, _)
scanFrom(entries, name, i) ==
    IF i >= Len(entries) THEN -1
    ELSE IF entries[i + 1].Key = name THEN i
    ELSE scanFrom(entries, name, i + 1)

\* the logging loop of the slow path reads dc.FileEntries[j] for every j of
\* i-10 .. i+9: some j outside the slice
LogOutOfRange(entries, i) ==
    ~(\A j \in (i - LogWindow)..(i + LogWindow - 1) : 0 <= j /\ j < Len(entries))

\* the first directory whose os.Stat succeeds (counted from 1), or 0
FirstHit(hits) ==
    IF \E i \in 1..Len(hits) : hits[i]
    THEN CHOOSE i \in 1..Len(hits) : hits[i] /\ \A k \in 1..(i - 1) : ~hits[k]
    ELSE 0

NotFound == [path |-> <<>>, found |-> FALSE]

\* LD_LIBRARY_PATH is set and some listed directory holds the library
LookupEnvHit ==
    /\ lpc = "env"
    /\ FirstHit(statHits) # 0
    /\ lres' = [path |-> EnvPath(FirstHit(statHits), library), found |-> TRUE]
    /\ lpc' = "done"
    /\ UNCHANGED <<FileEntries, library, statHits, lo, hi>>
    /\ UNCHANGED othersLookup

\* LD_LIBRARY_PATH is unset, or no listed directory holds the library
LookupEnvMiss ==
    /\ lpc = "env"
    /\ FirstHit(statHits) = 0
    /\ lo' = 0
    /\ hi' = Len(FileEntries)
    /\ lpc' = "bisect"
    /\ UNCHANGED <<FileEntries, library, statHits, lres>>
    /\ UNCHANGED othersLookup

mid == (lo + hi) \div 2
x == dl_cache_libcmp(FileEntries[mid + 1].Key, library)

\* _dl_cache_libcmp panics inside the bisection
LookupBisectPanic ==
    /\ lpc = "bisect" /\ lo < hi
    /\ x.kind = "panic"
    /\ lpc' = "panic"
    /\ UNCHANGED <<FileEntries, library, statHits, lo, hi, lres>>
    /\ UNCHANGED othersLookup

\* case 0 with a 64-bit entry
LookupBisectHit ==
    /\ lpc = "bisect" /\ lo < hi
    /\ x = Ret(0) /\ Is64(FileEntries[mid + 1])
    /\ lres' = [path |-> FileEntries[mid + 1].Value, found |-> TRUE]
    /\ lpc' = "done"
    /\ UNCHANGED <<FileEntries, library, statHits, lo, hi>>
    /\ UNCHANGED othersLookup

\* case 0 with an entry of the wrong platform
LookupBisectWrongArch ==
    /\ lpc = "bisect" /\ lo < hi
    /\ x = Ret(0) /\ ~Is64(FileEntries[mid + 1])
    /\ hi' = mid
    /\ UNCHANGED <<FileEntries, library, statHits, lo, lpc, lres>>
    /\ UNCHANGED othersLookup

\* case -1
LookupBisectLess ==
    /\ lpc = "bisect" /\ lo < hi
    /\ x = Ret(-1)
    /\ hi' = mid
    /\ UNCHANGED <<FileEntries, library, statHits, lo, lpc, lres>>
    /\ UNCHANGED othersLookup

\* case 1
LookupBisectGreater ==
    /\ lpc = "bisect" /\ lo < hi
    /\ x = Ret(1)
    /\ lo' = mid + 1
    /\ UNCHANGED <<FileEntries, library, statHits, hi, lpc, lres>>
    /\ UNCHANGED othersLookup

\* the bisection ends without a match
LookupBisectExit ==
    /\ lpc = "bisect" /\ lo >= hi
    /\ lpc' = "scan"
    /\ UNCHANGED <<FileEntries, library, statHits, lo, hi, lres>>
    /\ UNCHANGED othersLookup

\* the slow path finds the key and its logging loop stays inside the slice
LookupScanFound ==
    /\ lpc = "scan"
    /\ LET i == scanFrom(FileEntries, library, 0)
       IN  /\ i >= 0
           /\ ~LogOutOfRange(FileEntries, i)
           /\ lres' = [path |-> FileEntries[i + 1].Value, found |-> TRUE]
    /\ lpc' = "done"
    /\ UNCHANGED <<FileEntries, library, statHits, lo, hi>>
    /\ UNCHANGED othersLookup

\* the slow path finds the key and its logging loop indexes outside the slice
LookupScanPanic ==
    /\ lpc = "scan"
    /\ LET i == scanFrom(FileEntries, library, 0)
       IN  i >= 0 /\ LogOutOfRange(FileEntries, i)
    /\ lpc' = "panic"
    /\ UNCHANGED <<FileEntries, library, statHits, lo, hi, lres>>
    /\ UNCHANGED othersLookup

\* no entry has the key
LookupScanMiss ==
    /\ lpc = "scan"
    /\ scanFrom(FileEntries, library, 0) = -1
    /\ lres' = NotFound
    /\ lpc' = "done"
    /\ UNCHANGED <<FileEntries, library, statHits, lo, hi>>
    /\ UNCHANGED othersLookup

Lookup ==
    \/ LookupEnvHit \/ LookupEnvMiss
    \/ LookupBisectPanic \/ LookupBisectHit \/ LookupBisectWrongArch
    \/ LookupBisectLess \/ LookupBisectGreater \/ LookupBisectExit
    \/ LookupScanFound \/ LookupScanPanic \/ LookupScanMiss

----------------------------------------------------------------------------
(* resolveBinary; the argument is the variable library *)

\* the path exec.LookPath finds for the argument: "p/" + argument
LookPathOf(name) == <<112, 47>> \o name

\* os.Stat(filename) succeeds
ResolveStatOk ==
    /\ rpc = "stat" /\ statRes = "ok"
    /\ rfile' = library /\ rerr' = "nil" /\ rpc' = "done"
    /\ UNCHANGED <<caller, statRes, lookPathRes, lookupVars>>
    /\ UNCHANGED othersResolve

\* os.Stat fails with an error other than "does not exist"
ResolveStatErr ==
    /\ rpc = "stat" /\ statRes = "other"
    /\ rfile' = library /\ rerr' = "stat" /\ rpc' = "done"
    /\ UNCHANGED <<caller, statRes, lookPathRes, lookupVars>>
    /\ UNCHANGED othersResolve

\* exec.LookPath finds the argument
ResolveLookPath ==
    /\ rpc = "stat" /\ statRes = "notexist" /\ lookPathRes = "found"
    /\ rfile' = LookPathOf(library) /\ rerr' = "nil" /\ rpc' = "done"
    /\ UNCHANGED <<caller, statRes, lookPathRes, lookupVars>>
    /\ UNCHANGED othersResolve

\* exec.LookPath fails: err holds its error, and dc.Lookup is called
ResolveCallLookup ==
    /\ rpc = "stat" /\ statRes = "notexist" /\ lookPathRes = "notfound"
    /\ rerr' = "LookPath" /\ rpc' = "lookup"
    /\ lpc' = "env"
    /\ UNCHANGED <<caller, statRes, lookPathRes, rfile,
                   FileEntries, library, statHits, lo, hi, lres>>
    /\ UNCHANGED othersResolve

\* dc.Lookup returned ok: filename = fn, err is left as it is
ResolveLookupFound ==
    /\ rpc = "lookup" /\ lpc = "done" /\ lres.found
    /\ rfile' = lres.path /\ rpc' = "done"
    /\ UNCHANGED <<caller, statRes, lookPathRes, rerr, lookupVars>>
    /\ UNCHANGED othersResolve

\* dc.Lookup returned not ok: err = "Unable to locate"
ResolveLookupMiss ==
    /\ rpc = "lookup" /\ lpc = "done" /\ ~lres.found
    /\ rfile' = library /\ rerr' = "Unable" /\ rpc' = "done"
    /\ UNCHANGED <<caller, statRes, lookPathRes, lookupVars>>
    /\ UNCHANGED othersResolve

\* a panic of dc.Lookup unwinds through resolveBinary
ResolvePanic ==
    /\ rpc = "lookup" /\ lpc = "panic"
    /\ rpc' = "panic"
    /\ UNCHANGED <<caller, statRes, lookPathRes, rfile, rerr, lookupVars>>
    /\ UNCHANGED othersResolve

resolveBinary ==
    \/ ResolveStatOk \/ ResolveStatErr \/ ResolveLookPath \/ ResolveCallLookup
    \/ ResolveLookupFound \/ ResolveLookupMiss \/ ResolvePanic

----------------------------------------------------------------------------
(* ReadDLCache *)

\* records of the streams the decoder is run on
MaxLibs == 2

\* len(cacheMagic): the bytes of "ld.so-1.7.0\x00"
cacheMagic == <<108, 100, 46, 115, 111, 45, 49, 46, 55, 46, 48, 0>>
\* "ld.so"
MagicPrefix == <<108, 100, 46, 115, 111>>
\* sizes of the fields binary.Read fills: uint32, and _fileEntry
SizeU32 == 4
SizeEntry == 12

\* binary.LittleEndian on 4 bytes, as uint32 (values below 2^31 in the model)
U32(b) == b[1] + 256 * b[2] + 65536 * b[3] + 16777216 * b[4]
\* binary.LittleEndian on 4 bytes, as int32
I32(b) ==
    IF b[4] >= 128
    THEN b[1] + 256 * b[2] + 65536 * b[3] + 16777216 * (b[4] - 256)
    ELSE U32(b)

\* bytes.IndexByte(t, 0), counted from 0, -1 when t holds no zero byte
RECURSIVE IndexByte0(_)
IndexByte0(t) ==
    IF t = <<>> THEN -1
    ELSE IF Head(t) = 0 THEN 0
    ELSE LET r == IndexByte0(Tail(t)) IN IF r = -1 THEN -1 ELSE r + 1

\* the closure readString: stringTable[index:] panics when index is beyond
\* the table, stringTable[index : index+l] when l is -1
readString(stringTable, index) ==
    IF index > Len(stringTable) THEN [panic |-> TRUE, s |-> <<>>]
    ELSE LET l == IndexByte0(Drop(stringTable, index))
         IN  IF l = -1 THEN [panic |-> TRUE, s |-> <<>>]
             ELSE [panic |-> FALSE, s |-> SubSeq(stringTable, index + 1, index + l)]

\* the record of the i-th _fileEntry (counted from 0) of the stream r
RawEntry(r, i) ==
    LET at == Len(cacheMagic) + SizeU32 + i * SizeEntry
    IN  [Flags |-> I32(SubSeq(r, at + 1, at + 4)),
         Key   |-> U32(SubSeq(r, at + 5, at + 8)),
         Value |-> U32(SubSeq(r, at + 9, at + 12))]

\* ReadDLCache(r) on the bytes r of the reader
ReadDLCache(r) ==
    LET \* read(&magic) leaves magic zeroed when the stream is too short
        magic == IF Len(r) >= Len(cacheMagic)
                 THEN SubSeq(r, 1, Len(cacheMagic))
                 ELSE [i \in 1..Len(cacheMagic) |-> 0]
        afterMagic == Len(cacheMagic)
    IN  IF SubSeq(magic, 1, 5) # MagicPrefix
        THEN [kind |-> "error", err |-> "magic", entries |-> <<>>]
        ELSE IF Len(r) < afterMagic + SizeU32
        THEN [kind |-> "error", err |-> "EOF", entries |-> <<>>]
        ELSE
        LET nlibs == U32(SubSeq(r, afterMagic + 1, afterMagic + SizeU32))
            afterEntries == afterMagic + SizeU32 + nlibs * SizeEntry
        IN  IF Len(r) < afterEntries
            THEN [kind |-> "error", err |-> "EOF", entries |-> <<>>]
            ELSE
            LET stringTable == SubSeq(r, afterEntries + 1, Len(r))
                raw == [i \in 1..nlibs |-> RawEntry(r, i - 1)]
                key == [i \in 1..nlibs |-> readString(stringTable, raw[i].Key)]
                val == [i \in 1..nlibs |-> readString(stringTable, raw[i].Value)]
            IN  IF \E i \in 1..nlibs : key[i].panic \/ val[i].panic
                THEN [kind |-> "panic", err |-> "", entries |-> <<>>]
                ELSE [kind |-> "cache", err |-> "",
                      entries |-> [i \in 1..nlibs |->
                                     [Flags |-> raw[i].Flags,
                                      Key |-> key[i].s,
                                      Value |-> val[i].s]]]

\* the bytes of v as a little-endian uint32
LE32(v) == <<v % 256, (v \div 256) % 256, (v \div 65536) % 256, (v \div 16777216) % 256>>

\* the streams: a header, n records and a string table, cut at any length
Magics == {cacheMagic,
           <<108, 100, 46, 115, 111, 45, 49, 46, 54, 46, 48, 0>>,
           <<108, 100, 45, 115, 111, 45, 49, 46, 55, 46, 48, 0>>}
\* "a\x00/a\x00"
FullTable == <<97, 0, 47, 97, 0>>
Offsets == {0, 2, Len(FullTable)}
RawEntries == [Flags : {3, 771}, Key : Offsets, Value : Offsets]

RECURSIVE Concat(_)
Concat(ss) == IF ss = <<>> THEN <<>> ELSE Head(ss) \o Concat(Tail(ss))

Encode(m, recs) ==
    m \o LE32(Len(recs))
      \o Concat([i \in 1..Len(recs) |->
                   LE32(recs[i].Flags) \o LE32(recs[i].Key) \o LE32(recs[i].Value)])
      \o FullTable

\* ReadDLCache returns a cache
ReadReturnCache ==
    /\ dpc = "call"
    /\ ReadDLCache(stream).kind = "cache"
    /\ dres' = ReadDLCache(stream)
    /\ dpc' = "done"
    /\ UNCHANGED stream
    /\ UNCHANGED othersRead

\* ReadDLCache returns an error
ReadReturnError ==
    /\ dpc = "call"
    /\ ReadDLCache(stream).kind = "error"
    /\ dres' = ReadDLCache(stream)
    /\ dpc' = "done"
    /\ UNCHANGED stream
    /\ UNCHANGED othersRead

\* a slice expression of readString is out of range
ReadPanic ==
    /\ dpc = "call"
    /\ ReadDLCache(stream).kind = "panic"
    /\ dres' = ReadDLCache(stream)
    /\ dpc' = "panic"
    /\ UNCHANGED stream
    /\ UNCHANGED othersRead

----------------------------------------------------------------------------
(* recursiveImports and readImports *)

\* the most import edges of one graph
MaxEdges == 4

\* the declared names (sonames) of the libraries
Names == {"A", "B", "C", "D"}
\* the resolved path of library A, as resolveBinary hands it to recursiveImports
PathOfA == "pA"
Idents == Names \cup {PathOfA}

\* the file an identifier opens
FileOf(id) == IF id = PathOfA THEN "A" ELSE id

\* elf.ImportedLibraries of the file an identifier opens: its declared names
ImportedLibraries(id) == {n \in Names : <<FileOf(id), n>> \in edges}

\* the orders in which a list can hold the elements of S
Orders(S) ==
    {o \in [1..Cardinality(S) -> S] : \A i, j \in 1..Cardinality(S) : o[i] = o[j] => i = j}

\* a visit that takes a name already recorded as an import for a file seen
IsSeen_OrImported(s, filename) == filename \in s \cup imports
\* _, ok := seen[filename]
IsSeen(s, filename) == filename \in s

\* a visit that does not record the file it expands
MarkSeen_Forgotten(s, filename) == s
\* seen[filename] = struct{}{}
MarkSeen(s, filename) == s \cup {filename}

\* a loop that records only the deps not seen before
AddImport_UnlessSeen(imps, dep) == IF dep \in seen THEN imps ELSE imps \cup {dep}
\* imports[dep] = struct{}{}
AddImport(imps, dep) == imps \cup {dep}

\* readImports returns a non-nil error: os.Open fails and Lookup does not
\* find the name ("missing"), or elf.NewFile rejects the file ("badelf")
ReadFails(id) == how[id] \in {"missing", "badelf"}
\* readImports returns the list: os.Open succeeds ("open"), or the name does
\* not exist, Lookup finds it and the path it returns opens ("cache")
ReadSucceeds(id) == how[id] \in {"open", "cache"}

top == stack[Len(stack)]
Pop(st) == SubSeq(st, 1, Len(st) - 1)
Frame(filename) == [filename |-> filename, pc |-> "enter", deps |-> <<>>]
Bump(f, k) == [f EXCEPT ![k] = @ + 1]

\* visit: the file has been seen before, return nil
VisitSeen ==
    /\ ipc = "run" /\ stack # <<>> /\ top.pc = "enter"
    /\ IsSeen(seen, top.filename)
    /\ stack' = Pop(stack)
    /\ UNCHANGED <<edges, how, start, seen, imports, readCalls, fileReads, ipc, ierr>>
    /\ UNCHANGED othersImports

\* visit: mark the file seen and read its imports, in the order the reader lists them
VisitRead ==
    /\ ipc = "run" /\ stack # <<>> /\ top.pc = "enter"
    /\ ~IsSeen(seen, top.filename)
    /\ ReadSucceeds(top.filename)
    /\ seen' = MarkSeen(seen, top.filename)
    /\ readCalls' = Bump(readCalls, top.filename)
    /\ fileReads' = Bump(fileReads, FileOf(top.filename))
    /\ \E importedLibs \in Orders(ImportedLibraries(top.filename)) :
         stack' = [stack EXCEPT ![Len(stack)] =
                     [filename |-> top.filename, pc |-> "loop", deps |-> importedLibs]]
    /\ UNCHANGED <<edges, how, start, imports, ipc, ierr>>
    /\ UNCHANGED othersImports

\* visit: readImports fails, return err
VisitReadError ==
    /\ ipc = "run" /\ stack # <<>> /\ top.pc = "enter"
    /\ ~IsSeen(seen, top.filename)
    /\ ReadFails(top.filename)
    /\ seen' = MarkSeen(seen, top.filename)
    /\ readCalls' = Bump(readCalls, top.filename)
    /\ ierr' = how[top.filename]
    /\ ipc' = "unwind"
    /\ stack' = Pop(stack)
    /\ UNCHANGED <<edges, how, start, imports, fileReads>>
    /\ UNCHANGED othersImports

\* visit: dc.Lookup panics inside readImports
VisitReadPanic ==
    /\ ipc = "run" /\ stack # <<>> /\ top.pc = "enter"
    /\ ~IsSeen(seen, top.filename)
    /\ how[top.filename] = "panic"
    /\ seen' = MarkSeen(seen, top.filename)
    /\ readCalls' = Bump(readCalls, top.filename)
    /\ ipc' = "panic"
    /\ UNCHANGED <<edges, how, start, stack, imports, fileReads, ierr>>
    /\ UNCHANGED othersImports

\* the loop of visit: record the next dep and call visit(dep)
LoopNext ==
    /\ ipc = "run" /\ stack # <<>> /\ top.pc = "loop"
    /\ top.deps # <<>>
    /\ imports' = AddImport(imports, Head(top.deps))
    /\ stack' = Append([stack EXCEPT ![Len(stack)].deps = Tail(@)],
                       Frame(Head(top.deps)))
    /\ UNCHANGED <<edges, how, start, seen, readCalls, fileReads, ipc, ierr>>
    /\ UNCHANGED othersImports

\* the loop of visit is over: return nil
LoopEnd ==
    /\ ipc = "run" /\ stack # <<>> /\ top.pc = "loop"
    /\ top.deps = <<>>
    /\ stack' = Pop(stack)
    /\ UNCHANGED <<edges, how, start, seen, imports, readCalls, fileReads, ipc, ierr>>
    /\ UNCHANGED othersImports

\* the caller's visit(dep) returned an error: return err
UnwindError ==
    /\ ipc = "unwind" /\ stack # <<>>
    /\ stack' = Pop(stack)
    /\ UNCHANGED <<edges, how, start, seen, imports, readCalls, fileReads, ipc, ierr>>
    /\ UNCHANGED othersImports

\* return imports, visit(filename)
Return ==
    /\ ipc \in {"run", "unwind"} /\ stack = <<>>
    /\ ipc' = "done"
    /\ UNCHANGED <<edges, how, start, stack, seen, imports, readCalls, fileReads, ierr>>
    /\ UNCHANGED othersImports

recursiveImports ==
    \/ VisitSeen \/ VisitRead \/ VisitReadError \/ VisitReadPanic
    \/ LoopNext \/ LoopEnd \/ UnwindError \/ Return

\* the identifiers reached from the identifiers of S by one or more import
\* edges of the graph g, an edge leading from every identifier of its file
RECURSIVE ReachedFrom(_, _, _)
ReachedFrom(g, S, R) ==
    LET step == {e[2] : e \in {e \in g : \E id \in S \cup R : FileOf(id) = e[1]}}
    IN  IF step \subseteq R THEN R ELSE ReachedFrom(g, S, R \cup step)
Reachable(g, id) == ReachedFrom(g, {id}, {})

\* the graphs: at most MaxEdges import edges between the libraries, each out
\* of library A or of a library its closure holds (the others are never read)
Graphs ==
    {g \in SUBSET (Names \X Names) :
        /\ Cardinality(g) <= MaxEdges
        /\ \A e \in g : e[1] \in {"A"} \cup Reachable(g, "A")}
\* what opening each name does: every name opens, or one name does not open
\* directly; the resolved path always opens
Hows ==
    {[id \in Idents |-> "open"]}
    \cup {[id \in Idents |-> IF id = n THEN k ELSE "open"] :
            n \in Names, k \in {"cache", "missing", "badelf", "panic"}}

----------------------------------------------------------------------------
(* The inputs of the comparator and of the lookup *)

\* 'a', 'b', '0', '1'
Alphabet == {97, 98, 48, 49}
ShortStrings == UNION {[1..n -> Alphabet] : n \in 0..MaxLen}

\* "a01b", "a1c", "a1", "a01"
S_a01b == <<97, 48, 49, 98>>
S_a1c == <<97, 49, 99>>
S_a1 == <<97, 49>>
S_a01 == <<97, 48, 49>>
\* "a-1.so", "a-10.so", "libm.so.6", "libm.so"
S_a_1_so == <<97, 45, 49, 46, 115, 111>>
S_a_10_so == <<97, 45, 49, 48, 46, 115, 111>>
S_libm_so_6 == <<108, 105, 98, 109, 46, 115, 111, 46, 54>>
S_libm_so == <<108, 105, 98, 109, 46, 115, 111>>
\* "2147483647" and "2147483648": the largest int32 and the number after it
S_maxint == <<50, 49, 52, 55, 52, 56, 51, 54, 52, 55>>
S_overflow == <<50, 49, 52, 55, 52, 56, 51, 54, 52, 56>>

CmpInputs ==
    ShortStrings \cup {S_a01b, S_a1c, S_a1, S_a01, S_a_1_so, S_a_10_so,
                       S_libm_so_6, S_libm_so, S_maxint, S_overflow}

NoResult == [kind |-> "none", val |-> 0]

\* _dl_cache_libcmp returns
CmpReturn ==
    /\ cpc = "call"
    /\ dl_cache_libcmp(p1, p2).kind = "ret"
    /\ cres' = dl_cache_libcmp(p1, p2)
    /\ cpc' = "done"
    /\ UNCHANGED <<p1, p2>>
    /\ UNCHANGED othersCmp

\* parseLeadingNum panics
CmpPanic ==
    /\ cpc = "call"
    /\ dl_cache_libcmp(p1, p2).kind = "panic"
    /\ cres' = Panic
    /\ cpc' = "panic"
    /\ UNCHANGED <<p1, p2>>
    /\ UNCHANGED othersCmp

\* the keys of the caches: "a", "b", "1"
Keys == {<<97>>, <<98>>, <<49>>}
\* the flags of the entries: 0x003, 0x103, 0x303
FlagSet == {3, 259, 771}
\* the names looked up
LookupNames == Keys \cup {S_overflow}

\* the entries of a cache from their flags and keys, the i-th with value "/<i>"
WithValues(fk) ==
    [i \in 1..Len(fk) |-> [Flags |-> fk[i].Flags, Key |-> fk[i].Key, Value |-> <<47, 48 + i>>]]
\* n entries with one key, for the ends of a long cache: "z" sorts before
\* and "-" after every key
Fill(n, c) == [i \in 1..n |-> [Flags |-> 771, Key |-> <<c>>, Value |-> <<47, c>>]]

Caches ==
    UNION {{WithValues(fk) : fk \in [1..n -> [Flags : FlagSet, Key : Keys]]} : n \in 0..MaxEntries}

----------------------------------------------------------------------------
(* The specifications, one for each operation *)

\* the comparator is called on two strings
InitSpecCmp ==
    /\ p1 \in CmpInputs
    /\ p2 \in CmpInputs
    /\ cpc = "call"
    /\ cres = NoResult
    /\ stream = <<>>
    /\ dpc = "idle"
    /\ dres = [kind |-> "none", err |-> "", entries |-> <<>>]
    /\ FileEntries = <<>> /\ library = <<>> /\ statHits = <<>>
    /\ lo = 0 /\ hi = 0 /\ lpc = "idle" /\ lres = NotFound
    /\ caller = "none" /\ statRes = "none" /\ lookPathRes = "none"
    /\ rpc = "idle" /\ rfile = <<>> /\ rerr = "nil"
    /\ edges = {}
    /\ how = [id \in Idents |-> "open"]
    /\ start = "A"
    /\ stack = <<>>
    /\ seen = {}
    /\ imports = {}
    /\ readCalls = [id \in Idents |-> 0]
    /\ fileReads = [n \in Names |-> 0]
    /\ ipc = "idle"
    /\ ierr = "nil"

\* ReadDLCache is called on a stream
InitSpecRead ==
    /\ p1 = <<>> /\ p2 = <<>> /\ cpc = "idle" /\ cres = NoResult
    /\ \E m \in Magics, n \in 0..MaxLibs :
         \E recs \in [1..n -> RawEntries] :
           \E cut \in 0..Len(Encode(m, recs)) :
             stream = SubSeq(Encode(m, recs), 1, cut)
    /\ dpc = "call"
    /\ dres = [kind |-> "none", err |-> "", entries |-> <<>>]
    /\ FileEntries = <<>> /\ library = <<>> /\ statHits = <<>>
    /\ lo = 0 /\ hi = 0 /\ lpc = "idle" /\ lres = NotFound
    /\ caller = "none" /\ statRes = "none" /\ lookPathRes = "none"
    /\ rpc = "idle" /\ rfile = <<>> /\ rerr = "nil"
    /\ edges = {}
    /\ how = [id \in Idents |-> "open"]
    /\ start = "A"
    /\ stack = <<>>
    /\ seen = {}
    /\ imports = {}
    /\ readCalls = [id \in Idents |-> 0]
    /\ fileReads = [n \in Names |-> 0]
    /\ ipc = "idle"
    /\ ierr = "nil"

\* Lookup is called on a cache, by main and readImports or by resolveBinary
InitSpecLookup ==
    /\ p1 = <<>> /\ p2 = <<>> /\ cpc = "idle" /\ cres = NoResult
    /\ stream = <<>>
    /\ dpc = "idle"
    /\ dres = [kind |-> "none", err |-> "", entries |-> <<>>]
    /\ \E c \in Caches, pad \in {0, LogWindow} :
         FileEntries = Fill(pad, 122) \o c \o Fill(pad, 45)
    /\ library \in LookupNames
    /\ statHits \in UNION {[1..n -> BOOLEAN] : n \in 0..MaxDirs}
    /\ lo = 0 /\ hi = 0
    /\ lres = NotFound
    /\ caller \in {"Lookup", "resolveBinary"}
    /\ \/ /\ caller = "Lookup"
          /\ lpc = "env" /\ rpc = "idle"
          /\ statRes = "none" /\ lookPathRes = "none"
       \/ /\ caller = "resolveBinary"
          /\ lpc = "idle" /\ rpc = "stat"
          /\ \/ statRes \in {"ok", "other"} /\ lookPathRes = "none"
             \/ statRes = "notexist" /\ lookPathRes \in {"found", "notfound"}
    /\ rfile = <<>>
    /\ rerr = "nil"
    /\ edges = {}
    /\ how = [id \in Idents |-> "open"]
    /\ start = "A"
    /\ stack = <<>>
    /\ seen = {}
    /\ imports = {}
    /\ readCalls = [id \in Idents |-> 0]
    /\ fileReads = [n \in Names |-> 0]
    /\ ipc = "idle"
    /\ ierr = "nil"

\* recursiveImports is called on the start file of an import graph
InitSpecImports ==
    /\ p1 = <<>> /\ p2 = <<>> /\ cpc = "idle" /\ cres = NoResult
    /\ stream = <<>>
    /\ dpc = "idle"
    /\ dres = [kind |-> "none", err |-> "", entries |-> <<>>]
    /\ FileEntries = <<>> /\ library = <<>> /\ statHits = <<>>
    /\ lo = 0 /\ hi = 0 /\ lpc = "idle" /\ lres = NotFound
    /\ caller = "none" /\ statRes = "none" /\ lookPathRes = "none"
    /\ rpc = "idle" /\ rfile = <<>> /\ rerr = "nil"
    /\ edges \in Graphs
    /\ how \in Hows
    /\ start \in {"A", PathOfA}
    /\ stack = <<Frame(start)>>
    /\ seen = {}
    /\ imports = {}
    /\ readCalls = [id \in Idents |-> 0]
    /\ fileReads = [n \in Names |-> 0]
    /\ ipc = "run"
    /\ ierr = "nil"

NextCmp == CmpReturn \/ CmpPanic
SpecCmp == InitSpecCmp /\ [][NextCmp]_vars

NextRead == ReadReturnCache \/ ReadReturnError \/ ReadPanic
SpecRead == InitSpecRead /\ [][NextRead]_vars

NextLookup == Lookup \/ resolveBinary
SpecLookup == InitSpecLookup /\ [][NextLookup]_vars

NextImports == recursiveImports
SpecImports == InitSpecImports /\ [][NextImports]_vars

Init == InitSpecCmp \/ InitSpecRead \/ InitSpecLookup \/ InitSpecImports
Next == NextCmp \/ NextRead \/ NextLookup \/ NextImports
Spec == Init /\ [][Next]_vars

----------------------------------------------------------------------------
(* The claims about Lookup and resolveBinary, under SpecLookup *)

\* Lookup is called by main or readImports with LD_LIBRARY_PATH unset
PlainLookup == caller = "Lookup" /\ statHits = <<>>
\* the comparator returns on every key of the cache against the name
CmpReturns ==
    \A i \in 1..Len(FileEntries) :
        dl_cache_libcmp(FileEntries[i].Key, library).kind = "ret"
HasKey(name) == \E i \in 1..Len(FileEntries) : FileEntries[i].Key = name

\* C1: with no LD_LIBRARY_PATH override, for every cache and every name
\* Lookup returns normally, never crashing: found with the value of an entry
\* whose key is the name when some entry has that key, ("", false) when none
\* has. Stated for the caches and names on which the comparator itself
\* returns, so that a crash is a crash of Lookup's own code.
C1_LookupReturnsNormally ==
    (PlainLookup /\ CmpReturns) =>
        /\ lpc # "panic"
        /\ lpc = "done" =>
             IF HasKey(library)
             THEN /\ lres.found
                  /\ \E i \in 1..Len(FileEntries) :
                       FileEntries[i].Key = library /\ FileEntries[i].Value = lres.path
             ELSE lres = NotFound

\* the entries are sorted by the comparator in the order the bisection
\* assumes: greater keys first
SortedDescending ==
    \A i, j \in 1..Len(FileEntries) :
        i < j => dl_cache_libcmp(FileEntries[i].Key, FileEntries[j].Key) \in {Ret(0), Ret(1)}
\* the key occurs in a 64-bit entry and in an entry that is not 64-bit
HasBothVariants(name) ==
    \E i, j \in 1..Len(FileEntries) :
        /\ FileEntries[i].Key = name /\ Is64(FileEntries[i])
        /\ FileEntries[j].Key = name /\ ~Is64(FileEntries[j])

\* C2: with no LD_LIBRARY_PATH override, on a cache sorted by the comparator
\* and a key that has a 64-bit entry and another entry, what Lookup returns
\* is the value of a 64-bit entry of that key, wherever the two entries are.
\* Stated for the calls that return.
C2_LookupPrefers64 ==
    (PlainLookup /\ SortedDescending /\ HasBothVariants(library) /\ lpc = "done") =>
        /\ lres.found
        /\ \E i \in 1..Len(FileEntries) :
             /\ FileEntries[i].Key = library /\ Is64(FileEntries[i])
             /\ FileEntries[i].Value = lres.path

\* C7: resolveBinary returns the file of the first step that succeeds with a
\* nil error. Stated for an argument that is not an existing path: found on
\* the executable search path, it is that path; else found by Lookup, it is
\* the looked-up path; an error is returned only when Lookup fails too.
C7_ResolveBinaryFirstSuccess ==
    (caller = "resolveBinary" /\ rpc = "done" /\ statRes = "notexist") =>
        /\ lookPathRes = "found" => (rfile = LookPathOf(library) /\ rerr = "nil")
        /\ (lookPathRes = "notfound" /\ lres.found) => (rfile = lres.path /\ rerr = "nil")
        /\ rerr # "nil" => (lookPathRes = "notfound" /\ ~lres.found)

----------------------------------------------------------------------------
(* The claim about ReadDLCache, under SpecRead *)

\* the stream holds its magic, its count and all the records the count announces
HoldsRecords(r) ==
    /\ Len(r) >= Len(cacheMagic) + SizeU32
    /\ Len(r) >= Len(cacheMagic) + SizeU32
                   + U32(SubSeq(r, Len(cacheMagic) + 1, Len(cacheMagic) + SizeU32)) * SizeEntry

\* C8: for every byte stream ReadDLCache returns a cache or an error and never
\* crashes: an error when the first 5 bytes are not "ld.so", an error when the
\* stream ends before the count or the records, an error (no out-of-range
\* access) when an offset is at or beyond the string table or names a string
\* without terminator.
C8_ReadDLCacheNeverCrashes ==
    /\ dpc # "panic"
    /\ dpc = "done" =>
         /\ dres.kind \in {"cache", "error"}
         /\ (Len(stream) < 5 \/ SubSeq(stream, 1, 5) # MagicPrefix) => dres.kind = "error"
         /\ ~HoldsRecords(stream) => dres.kind = "error"

----------------------------------------------------------------------------
(* The claims about _dl_cache_libcmp, under SpecCmp *)

\* C9: _dl_cache_libcmp is antisymmetric and reflexive on every pair of
\* strings: it returns a value of {-1, 0, 1}, cmp(a, b) = -cmp(b, a) and
\* cmp(a, a) = 0.
C9_CmpAntisymmetric ==
    /\ cpc # "panic"
    /\ cpc = "done" =>
         /\ cres.val \in {-1, 0, 1}
         /\ dl_cache_libcmp(p2, p1) = Ret(-cres.val)
         /\ p1 = p2 => cres.val = 0

\* every digit run of s fits in a 32-bit signed integer
RunsFit(s) ==
    \A i \in 0..(Len(s) - 1) : IsDigit(s[i + 1]) => ~parseLeadingNum(Drop(s, i)).err

\* C10: on strings whose digit runs fit in a 32-bit signed integer, the
\* result of _dl_cache_libcmp has the sign of the result of the glibc
\* comparator.
C10_CmpMatchesGlibc ==
    (cpc = "done" /\ RunsFit(p1) /\ RunsFit(p2)) =>
        /\ ~glibc_libcmp(p1, p2).ub
        /\ cres.val = Sign(glibc_libcmp(p1, p2).val)

----------------------------------------------------------------------------
(* The claims about recursiveImports, under SpecImports *)

\* every identifier can be opened and read
AllOpen == \A id \in Idents : ReadSucceeds(id)

\* the work a run has left: the identifiers not yet seen weigh most, then
\* the frames on the stack and the deps their loops still hold, then the
\* return itself
RECURSIVE Pending(_)
Pending(st) ==
    IF st = <<>> THEN 0 ELSE 1 + 2 * Len(Head(st).deps) + Pending(Tail(st))
Weight == 2 * (Cardinality(Idents) + 1) * (Cardinality(Names) + 1)
Measure ==
    Cardinality(Idents \ seen) * Weight + Pending(stack)
      + (IF ipc \in {"run", "unwind"} THEN 1 ELSE 0)

\* C3: on a graph in which every node can be opened and read, recursiveImports
\* returns (every step takes work off a finite measure, and a step is possible
\* until the return), without error or panic, exactly the names reached from
\* the start by one or more import edges, in whatever order the reader lists
\* the imports of each node.
C3_ImportsAreTheReachableNames ==
    /\ [](AllOpen =>
            /\ ipc \in {"run", "done"}
            /\ ierr = "nil"
            /\ Measure >= 0
            /\ ipc = "run" => ENABLED NextImports
            /\ imports \subseteq Reachable(edges, start)
            /\ ipc = "done" => imports = Reachable(edges, start))
    /\ [][AllOpen => Measure' < Measure]_vars

\* C3 is met on a graph with a cycle through the start file, entered by its
\* resolved path, with a node that lists two imports and one found through
\* the cache
C3_Witness ==
    /\ ipc = "done" /\ AllOpen
    /\ start = PathOfA
    /\ "A" \in imports
    /\ \E id \in Idents : how[id] = "cache" /\ readCalls[id] = 1
    /\ \E id \in seen : Cardinality(ImportedLibraries(id)) >= 2

\* the two-node cycle: A imports B, B imports A, both can be read
IsCycle == edges = {<<"A", "B">>, <<"B", "A">>} /\ AllOpen

\* C4 as amended: started from A on the two-node cycle, recursiveImports
\* terminates (every step takes work off the measure, and a step is possible
\* until the return) and returns exactly {A, B}: B re-imports A by name.
C4_CycleReturnsBoth ==
    /\ [](IsCycle =>
            /\ ipc \in {"run", "done"}
            /\ Measure >= 0
            /\ ipc = "run" => ENABLED NextImports
            /\ ipc = "done" => (ierr = "nil" /\ imports = {"A", "B"}))
    /\ [][IsCycle => Measure' < Measure]_vars

C4_Witness == IsCycle /\ ipc = "done" /\ imports = {"A", "B"} /\ start = "A"

\* C4 as claimed: on the two-node cycle the call returns exactly {B}.
C4_CycleReturnsOnlyB == (IsCycle /\ ipc = "done") => imports = {"B"}

\* the diamond: A imports B and C, B and C import D, all can be read
IsDiamond ==
    /\ edges = {<<"A", "B">>, <<"A", "C">>, <<"B", "D">>, <<"C", "D">>}
    /\ AllOpen

\* C5 as amended: readImports is executed at most once for each identifier
\* (the string visit is called with), also when it is reached through another
\* parent; on the diamond the imports of D are read exactly once and the
\* result is {B, C, D}.
C5_EachIdentifierReadOnce ==
    /\ \A id \in Idents : readCalls[id] <= 1
    /\ (IsDiamond /\ ipc = "done") =>
         (fileReads["D"] = 1 /\ imports = {"B", "C", "D"})

C5_Witness ==
    /\ IsDiamond /\ ipc = "done" /\ fileReads["D"] = 1
    /\ \A id \in {"A", "B", "C", "D"} : id = start \/ id \in imports

\* C5 as claimed: the imports of a file are read at most once, also when the
\* file is reached under its other identifier.
C5_EachFileReadOnce == \A f \in Names : fileReads[f] <= 1

\* C6: when reading the imports of a node fails, the call returns the error
\* and no partial closure: the set returned with a non-nil error is empty.
C6_NoPartialClosure == (ipc = "done" /\ ierr # "nil") => imports = {}

====
